---- MODULE Spec2Model ----
(***************************************************************************)
(* A model of preprocessing/automate_muhammad_rizky_fajar.py: one run of   *)
(* automate_preprocessing over a small Telco-churn CSV, statement by       *)
(* statement, followed by uses of the fitted preprocessor on later rows.   *)
(*                                                                         *)
(* The pandas and scikit-learn calls are modelled by what they compute:    *)
(* read_csv's per-column type inference, Series.replace, to_numeric with   *)
(* errors='coerce', select_dtypes, LabelEncoder, SimpleImputer,            *)
(* MinMaxScaler (in IEEE-754 binary64, round to nearest even),             *)
(* OneHotEncoder(handle_unknown='ignore'), ColumnTransformer with          *)
(* remainder='passthrough', the DataFrame constructor's shape check, and   *)
(* the four writes.                                                        *)
(***************************************************************************)
EXTENDS Integers, Sequences, FiniteSets, TLC

(***************************************************************************)
(* Natural numbers of any size, as little-endian sequences of limbs with   *)
(* no high zero limb.  float64 significands have 53 bits and their         *)
(* products 106, which 32-bit machine integers cannot hold.                *)
(***************************************************************************)
Limb == [bits |-> 15, base |-> 32768]

Max2(a, b) == IF a >= b THEN a ELSE b

Min2(a, b) == IF a <= b THEN a ELSE b

RECURSIVE NatTrim(_)
NatTrim(a) ==
    IF a = <<>> THEN <<>>
    ELSE IF a[Len(a)] = 0 THEN NatTrim(SubSeq(a, 1, Len(a) - 1))
    ELSE a

RECURSIVE NatFromInt(_)
NatFromInt(n) ==
    IF n = 0 THEN <<>>
    ELSE <<n % Limb.base>> \o NatFromInt(n \div Limb.base)

NatLimb(a, i) == IF i <= Len(a) THEN a[i] ELSE 0

RECURSIVE NatAddRec(_, _, _, _)
NatAddRec(a, b, i, carry) ==
    IF i > Max2(Len(a), Len(b))
    THEN (IF carry = 0 THEN <<>> ELSE <<carry>>)
    ELSE LET s == NatLimb(a, i) + NatLimb(b, i) + carry
         IN  <<s % Limb.base>> \o NatAddRec(a, b, i + 1, s \div Limb.base)

NatAdd(a, b) == NatAddRec(a, b, 1, 0)

RECURSIVE NatSubRec(_, _, _, _)
NatSubRec(a, b, i, borrow) ==
    IF i > Len(a) THEN <<>>
    ELSE LET d == NatLimb(a, i) - NatLimb(b, i) - borrow
         IN  IF d < 0
             THEN <<d + Limb.base>> \o NatSubRec(a, b, i + 1, 1)
             ELSE <<d>> \o NatSubRec(a, b, i + 1, 0)

\* a - b for a >= b
NatSub(a, b) == NatTrim(NatSubRec(a, b, 1, 0))

RECURSIVE NatCmpRec(_, _, _)
NatCmpRec(a, b, i) ==
    IF i = 0 THEN 0
    ELSE IF a[i] < b[i] THEN -1
    ELSE IF a[i] > b[i] THEN 1
    ELSE NatCmpRec(a, b, i - 1)

\* -1, 0 or 1 as a < b, a = b, a > b
NatCmp(a, b) ==
    IF Len(a) < Len(b) THEN -1
    ELSE IF Len(a) > Len(b) THEN 1
    ELSE NatCmpRec(a, b, Len(a))

RECURSIVE NatMulLimbRec(_, _, _, _)
NatMulLimbRec(a, m, i, carry) ==
    IF i > Len(a)
    THEN (IF carry = 0 THEN <<>> ELSE <<carry>>)
    ELSE LET p == a[i] * m + carry
         IN  <<p % Limb.base>> \o NatMulLimbRec(a, m, i + 1, p \div Limb.base)

\* a * m for one limb m
NatMulLimb(a, m) == NatTrim(NatMulLimbRec(a, m, 1, 0))

RECURSIVE NatMulRec(_, _, _)
NatMulRec(a, b, j) ==
    IF j > Len(b) THEN <<>>
    ELSE NatAdd(NatMulLimb(a, b[j]), <<0>> \o NatMulRec(a, b, j + 1))

NatMul(a, b) == NatTrim(NatMulRec(a, b, 1))

\* a * 2^k
NatShl(a, k) ==
    IF a = <<>> THEN <<>>
    ELSE [i \in 1..(k \div Limb.bits) |-> 0] \o NatMulLimb(a, 2^(k % Limb.bits))

\* floor(a / 2^k)
NatShr(a, k) ==
    LET drop == k \div Limb.bits
        r    == k % Limb.bits
        n    == Len(a) - drop
    IN  IF n <= 0 THEN <<>>
        ELSE NatTrim([i \in 1..n |->
                 (a[i + drop] \div 2^r)
                 + (NatLimb(a, i + drop + 1) % 2^r) * 2^(Limb.bits - r)])

RECURSIVE IntBitLen(_)
IntBitLen(n) == IF n = 0 THEN 0 ELSE 1 + IntBitLen(n \div 2)

NatBitLen(a) ==
    IF a = <<>> THEN 0
    ELSE Limb.bits * (Len(a) - 1) + IntBitLen(a[Len(a)])

\* bit i of a, bit 0 the lowest
NatBit(a, i) == (NatLimb(a, (i \div Limb.bits) + 1) \div 2^(i % Limb.bits)) % 2

\* whether any of the k low bits of a is set
NatLowBitsSet(a, k) == NatShl(NatShr(a, k), k) # a

\* one step of binary long division: bring down bit i of a
NatDivStep(a, b, i, st) ==
    LET r2 == NatAdd(NatMulLimb(st.rem, 2), NatFromInt(NatBit(a, i)))
        q2 == NatMulLimb(st.quot, 2)
    IN  IF NatCmp(r2, b) >= 0
        THEN [quot |-> NatAdd(q2, <<1>>), rem |-> NatSub(r2, b)]
        ELSE [quot |-> q2, rem |-> r2]

\* the steps for bits hi down to lo (hi >= lo), split in halves
RECURSIVE NatDivSpan(_, _, _, _, _)
NatDivSpan(a, b, hi, lo, st) ==
    IF hi = lo THEN NatDivStep(a, b, hi, st)
    ELSE LET mid  == (hi + lo + 1) \div 2
             high == NatDivSpan(a, b, hi, mid, st)
         IN  IF Len(high.rem) >= 0        \* the high half first
             THEN NatDivSpan(a, b, mid - 1, lo, high)
             ELSE high

\* short division by one limb m > 0, from limb i of a down, rem the running
\* remainder
RECURSIVE NatDivLimbRec(_, _, _, _)
NatDivLimbRec(a, m, i, rem) ==
    IF i = 0 THEN [quot |-> <<>>, rem |-> NatFromInt(rem)]
    ELSE LET cur  == rem * Limb.base + a[i]
             rest == NatDivLimbRec(a, m, i - 1, cur % m)
         IN  [quot |-> rest.quot \o <<cur \div m>>, rem |-> rest.rem]

\* floor(a / b) and a mod b, for b > 0: short division when b is one limb,
\* binary long division otherwise
NatDivMod(a, b) ==
    IF a = <<>> THEN [quot |-> <<>>, rem |-> <<>>]
    ELSE IF Len(b) = 1
    THEN LET qr == NatDivLimbRec(a, b[1], Len(a), 0)
         IN  [quot |-> NatTrim(qr.quot), rem |-> qr.rem]
    ELSE NatDivSpan(a, b, NatBitLen(a) - 1, 0, [quot |-> <<>>, rem |-> <<>>])

RECURSIVE IntTrailingZeros(_)
IntTrailingZeros(n) == IF n % 2 = 1 THEN 0 ELSE 1 + IntTrailingZeros(n \div 2)

\* the number of low zero bits of a > 0
RECURSIVE NatTrailingZeros(_, _)
NatTrailingZeros(a, i) ==
    IF a[i] = 0 THEN Limb.bits + NatTrailingZeros(a, i + 1)
    ELSE IntTrailingZeros(a[i])

(***************************************************************************)
(* float64: sgn * man * 2^exp with man of exactly MantissaBits bits, or    *)
(* zero.  Every operation rounds its exact result to nearest, ties to      *)
(* even, as numpy's float64 arithmetic does.  Exponent range (overflow,    *)
(* subnormals) is not modelled: the values here stay far from both.        *)
(***************************************************************************)
MantissaBits == 53

FZero == [sgn |-> 1, man |-> <<>>, exp |-> 0]

\* sgn * n * 2^e * (1 + a nonzero tail if sticky), rounded
FRound(sgn, n, e, sticky) ==
    LET len == NatBitLen(n)
    IN  IF len = 0 THEN FZero
        ELSE IF len <= MantissaBits
        THEN [sgn |-> sgn, man |-> NatShl(n, MantissaBits - len),
              exp |-> e - (MantissaBits - len)]
        ELSE LET d    == len - MantissaBits
                 q    == NatShr(n, d)
                 half == NatBit(n, d - 1) = 1
                 rest == sticky \/ NatLowBitsSet(n, d - 1)
                 up   == half /\ (rest \/ NatBit(q, 0) = 1)
                 q1   == IF up THEN NatAdd(q, <<1>>) ELSE q
             IN  IF NatBitLen(q1) > MantissaBits
                 THEN [sgn |-> sgn, man |-> NatShr(q1, 1), exp |-> e + d + 1]
                 ELSE [sgn |-> sgn, man |-> q1, exp |-> e + d]

\* int -> float64 (exact for the small integers of the model)
FFromInt(n) ==
    IF n >= 0 THEN FRound(1, NatFromInt(n), 0, FALSE)
    ELSE FRound(-1, NatFromInt(-n), 0, FALSE)

FNeg(x) == IF x.man = <<>> THEN x ELSE [x EXCEPT !.sgn = -x.sgn]

FMul(x, y) == FRound(x.sgn * y.sgn, NatMul(x.man, y.man), x.exp + y.exp, FALSE)

FAdd(x, y) ==
    IF x.man = <<>> THEN y
    ELSE IF y.man = <<>> THEN x
    ELSE LET e  == Min2(x.exp, y.exp)
             mx == NatShl(x.man, x.exp - e)
             my == NatShl(y.man, y.exp - e)
         IN  IF x.sgn = y.sgn THEN FRound(x.sgn, NatAdd(mx, my), e, FALSE)
             ELSE IF NatCmp(mx, my) >= 0 THEN FRound(x.sgn, NatSub(mx, my), e, FALSE)
             ELSE FRound(y.sgn, NatSub(my, mx), e, FALSE)

FSub(x, y) == FAdd(x, FNeg(y))

\* x / y for y # 0
FDiv(x, y) ==
    IF x.man = <<>> THEN FZero
    ELSE LET k  == MantissaBits + 3
             tz == NatTrailingZeros(y.man, 1)
             qr == NatDivMod(NatShl(x.man, k), NatShr(y.man, tz))
         IN  FRound(x.sgn * y.sgn, qr.quot, x.exp - (y.exp + tz) - k,
                    qr.rem # <<>>)

\* the sign of x - y, exactly
FCmp(x, y) ==
    LET e  == Min2(x.exp, y.exp)
        mx == NatShl(x.man, x.exp - e)
        my == NatShl(y.man, y.exp - e)
        sx == IF x.man = <<>> THEN 0 ELSE x.sgn
        sy == IF y.man = <<>> THEN 0 ELSE y.sgn
    IN  IF sx # sy THEN (IF sx < sy THEN -1 ELSE 1)
        ELSE IF sx = 0 THEN 0
        ELSE sx * NatCmp(mx, my)

FLess(x, y) == FCmp(x, y) < 0

FLeq(x, y) == FCmp(x, y) <= 0

FOne == FFromInt(1)

(***************************************************************************)
(* Text.  A str is compared as Python compares it: by code points, a       *)
(* proper prefix first.  CodePoints lists the code points of every string  *)
(* the model's CSV files can hold.                                         *)
(***************************************************************************)
CodePoints(s) ==
    IF s = "" THEN <<>> ELSE
    IF s = " " THEN <<32>> ELSE
    IF s = "0" THEN <<48>> ELSE
    IF s = "1" THEN <<49>> ELSE
    IF s = "3" THEN <<51>> ELSE
    IF s = "6" THEN <<54>> ELSE
    IF s = "True" THEN <<84,114,117,101>> ELSE
    IF s = "False" THEN <<70,97,108,115,101>> ELSE
    IF s = "No" THEN <<78,111>> ELSE
    IF s = "Yes" THEN <<89,101,115>> ELSE
    IF s = "Maybe" THEN <<77,97,121,98,101>> ELSE
    IF s = "No internet service" THEN <<78,111,32,105,110,116,101,114,110,101,116,32,115,101,114,118,105,99,101>> ELSE
    IF s = "No phone service" THEN <<78,111,32,112,104,111,110,101,32,115,101,114,118,105,99,101>> ELSE
    IF s = "DSL" THEN <<68,83,76>> ELSE
    IF s = "Fiber optic" THEN <<70,105,98,101,114,32,111,112,116,105,99>> ELSE
    IF s = "missing" THEN <<109,105,115,115,105,110,103>> ELSE
    IF s = "c1" THEN <<99,49>> ELSE
    <<>>

RECURSIVE SeqLess(_, _, _)
SeqLess(a, b, i) ==
    IF i > Len(a) THEN i <= Len(b)
    ELSE IF i > Len(b) THEN FALSE
    ELSE IF a[i] # b[i] THEN a[i] < b[i]
    ELSE SeqLess(a, b, i + 1)

\* str.__lt__
StrLess(s, t) == SeqLess(CodePoints(s), CodePoints(t), 1)

\* sorted(set of str), ascending
RECURSIVE SortStrings(_)
SortStrings(S) ==
    IF S = {} THEN <<>>
    ELSE LET least == CHOOSE s \in S : \A t \in S \ {s} : StrLess(s, t)
         IN  <<least>> \o SortStrings(S \ {least})

Range(f) == {f[i] : i \in DOMAIN f}

\* the positions of seq whose element satisfies Keep, as a subsequence
RECURSIVE SelectSeqBy(_, _)
SelectSeqBy(seq, keep) ==
    IF seq = <<>> THEN <<>>
    ELSE (IF Head(seq) \in keep THEN <<Head(seq)>> ELSE <<>>)
         \o SelectSeqBy(Tail(seq), keep)

RECURSIVE Flatten(_)
Flatten(seqs) ==
    IF seqs = <<>> THEN <<>> ELSE Head(seqs) \o Flatten(Tail(seqs))

(***************************************************************************)
(* Cell values of a DataFrame: a str, an integer-valued number (int64, or  *)
(* float64 before any arithmetic), a float64 result, a bool, or NaN.       *)
(***************************************************************************)
Str(s) == [t |-> "str", v |-> s]

Num(n) == [t |-> "num", v |-> n]

Flt(x) == [t |-> "flt", v |-> x]

Bool(b) == [t |-> "bool", v |-> b]

NaN == [t |-> "nan", v |-> "nan"]

(***************************************************************************)
(* pandas.read_csv: a file is a header and rows of text fields; every      *)
(* column gets the narrowest dtype all its fields parse as.                *)
(***************************************************************************)
\* pandas' default na_values that the model's files can hold
NaValues == {"", "NA", "N/A", "NaN", "nan", "null", "NULL", "None", "<NA>"}

\* fields that parse as an integer, and their values
IntTokens == {"0", "1", "3", "6"}

ParseInt(tok) ==
    IF tok = "0" THEN 0 ELSE IF tok = "1" THEN 1 ELSE IF tok = "3" THEN 3 ELSE 6

TrueValues == {"True", "TRUE", "true"}

FalseValues == {"False", "FALSE", "false"}

InferDtype(toks) ==
    IF toks \subseteq IntTokens THEN "int64"
    ELSE IF toks \subseteq IntTokens \cup NaValues THEN "float64"
    ELSE IF toks \subseteq TrueValues \cup FalseValues THEN "bool"
    ELSE "object"

ParseCell(dtype, tok) ==
    IF tok \in NaValues THEN NaN
    ELSE IF dtype \in {"int64", "float64"} THEN Num(ParseInt(tok))
    ELSE IF dtype = "bool" THEN Bool(tok \in TrueValues)
    ELSE Str(tok)

\* pd.read_csv(raw_data_path) of an existing file
ReadCsv(file) ==
    LET cols  == Range(file.header)
        n     == Len(file.rows)
        dt    == [c \in cols |-> InferDtype({file.rows[i][c] : i \in 1..n})]
    IN  [columns |-> file.header,
         dtype   |-> dt,
         data    |-> [i \in 1..n |->
                        [c \in cols |-> ParseCell(dt[c], file.rows[i][c])]]]

HasColumn(frame, c) == c \in Range(frame.columns)

NRows(frame) == Len(frame.data)

\* the frame with column c's cells replaced by f[i] and its dtype by dt
SetColumn(frame, c, f, dt) ==
    [frame EXCEPT !.dtype[c] = dt,
                  !.data = [i \in 1..Len(frame.data) |->
                              [frame.data[i] EXCEPT ![c] = f[i]]]]

(***************************************************************************)
(* The cleaning statements (lines 16-25).                                  *)
(***************************************************************************)
ServiceCols ==
    <<"OnlineSecurity", "OnlineBackup", "DeviceProtection", "TechSupport",
      "StreamingTV", "StreamingMovies">>

\* a replace that is not confined to column c: cells equal to old become new
\* in every column
ReplaceInEveryColumn(frame, c, old, new) ==
    [frame EXCEPT !.data = [i \in 1..NRows(frame) |->
        [k \in DOMAIN frame.data[i] |->
            IF frame.data[i][k] = Str(old) THEN Str(new) ELSE frame.data[i][k]]]]

\* df[col] = df[col].replace({old: new}): cells equal to old become new
ReplaceInColumn(frame, c, old, new) ==
    SetColumn(frame, c,
              [i \in 1..NRows(frame) |->
                  IF frame.data[i][c] = Str(old) THEN Str(new)
                  ELSE frame.data[i][c]],
              frame.dtype[c])

\* the loop of lines 17-18 from ServiceCols[k] on: the frame it leaves, and
\* whether df[col] raised KeyError on the way
RECURSIVE ReplaceServiceFrom(_, _)
ReplaceServiceFrom(frame, k) ==
    LET cur == frame
    IN  IF k > Len(ServiceCols) THEN [frame |-> cur, ok |-> TRUE]
        ELSE IF ~HasColumn(cur, ServiceCols[k]) THEN [frame |-> cur, ok |-> FALSE]
        ELSE ReplaceServiceFrom(
                 ReplaceInColumn(cur, ServiceCols[k], "No internet service", "No"),
                 k + 1)

\* pd.to_numeric(value, errors='coerce') of one cell
ToNumericCell(cell) ==
    IF cell.t = "str"
    THEN (IF cell.v \in IntTokens THEN Num(ParseInt(cell.v)) ELSE NaN)
    ELSE cell

\* a coercion that also drops the records whose value did not parse
ToNumericDropNa(frame, c) ==
    LET kept == SelectSeqBy([i \in 1..NRows(frame) |-> i],
                    {i \in 1..NRows(frame) : ToNumericCell(frame.data[i][c]).t = "num"})
    IN  [frame EXCEPT !.dtype[c] = "int64",
                      !.data = [k \in 1..Len(kept) |->
                          [frame.data[kept[k]] EXCEPT
                              ![c] = ToNumericCell(frame.data[kept[k]][c])]]]

\* pd.to_numeric(df[c], errors='coerce')
ToNumeric(frame, c) ==
    LET out == [i \in 1..NRows(frame) |-> ToNumericCell(frame.data[i][c])]
        dt  == IF frame.dtype[c] # "object" THEN frame.dtype[c]
               ELSE IF \A i \in 1..NRows(frame) : out[i].t = "num" THEN "int64"
               ELSE "float64"
    IN  SetColumn(frame, c, out, dt)

\* df.drop(c, axis=1) of a present column
DropColumn(frame, c) ==
    LET keep == Range(frame.columns) \ {c}
    IN  [columns |-> SelectSeqBy(frame.columns, keep),
         dtype   |-> [k \in keep |-> frame.dtype[k]],
         data    |-> [i \in 1..NRows(frame) |->
                        [k \in keep |-> frame.data[i][k]]]]

\* X.select_dtypes(include=dtypes).columns
SelectDtypes(frame, dtypes) ==
    SelectSeqBy(frame.columns, {c \in Range(frame.columns) : frame.dtype[c] \in dtypes})

(***************************************************************************)
(* LabelEncoder (lines 32-35).  The labels of the model are str or NaN.    *)
(***************************************************************************)
Column(frame, c) == [i \in 1..NRows(frame) |-> frame.data[i][c]]

\* sklearn's _unique_python: the distinct non-missing values sorted, the
\* missing value after them
UniqueSorted(cells) ==
    LET strs == {x.v : x \in {y \in Range(cells) : y.t = "str"}}
        sorted == SortStrings(strs)
    IN  [k \in 1..Len(sorted) |-> Str(sorted[k])]
        \o (IF NaN \in Range(cells) THEN <<NaN>> ELSE <<>>)

\* le.fit on the labels in order of first appearance, unsorted
RECURSIVE FirstAppearance(_, _)
FirstAppearance(cells, seen) ==
    IF cells = <<>> THEN <<>>
    ELSE IF Head(cells) \in seen THEN FirstAppearance(Tail(cells), seen)
    ELSE <<Head(cells)>> \o FirstAppearance(Tail(cells), seen \cup {Head(cells)})

LabelFitUnsorted(cells) == FirstAppearance(cells, {})

\* le.fit(y).classes_
LabelFit(y) == UniqueSorted(y)

\* the integer code of a value: its 0-based place in classes_
LabelCode(classes, value) ==
    (CHOOSE k \in 1..Len(classes) : classes[k] = value) - 1

\* le.transform(y)
LabelTransform(classes, y) == [i \in 1..Len(y) |-> LabelCode(classes, y[i])]

\* le.inverse_transform(codes)
LabelInverse(classes, codes) == [i \in 1..Len(codes) |-> classes[codes[i] + 1]]

(***************************************************************************)
(* The numeric pipeline (lines 47-50): SimpleImputer(strategy='mean') then *)
(* MinMaxScaler(), both in float64.                                        *)
(***************************************************************************)
\* a numeric cell as float64 (check_array's conversion); NaN stays NaN
AsFloat(cell) ==
    IF cell.t = "num" THEN Flt(FFromInt(cell.v))
    ELSE IF cell.t = "bool" THEN Flt(IF cell.v THEN FOne ELSE FZero)
    ELSE cell

RECURSIVE FSumFrom(_, _, _)
FSumFrom(cells, i, acc) ==
    IF i > Len(cells) THEN acc
    ELSE FSumFrom(cells, i + 1,
                  IF cells[i].t = "flt" THEN FAdd(acc, cells[i].v) ELSE acc)

\* SimpleImputer(strategy='mean').statistics_ of one column: the sum of the
\* non-missing values in row order over their count; NaN when none
ImputerMean(cells) ==
    LET present == {i \in 1..Len(cells) : cells[i].t = "flt"}
    IN  IF present = {} THEN NaN
        ELSE Flt(FDiv(FSumFrom(cells, 1, FZero), FFromInt(Cardinality(present))))

ImputeCell(cell, fill) == IF cell.t = "nan" THEN fill ELSE cell

RECURSIVE FMinOf(_, _, _)
FMinOf(cells, i, acc) ==
    IF i > Len(cells) THEN acc
    ELSE FMinOf(cells, i + 1, IF FLess(cells[i].v, acc) THEN cells[i].v ELSE acc)

RECURSIVE FMaxOf(_, _, _)
FMaxOf(cells, i, acc) ==
    IF i > Len(cells) THEN acc
    ELSE FMaxOf(cells, i + 1, IF FLess(acc, cells[i].v) THEN cells[i].v ELSE acc)

\* np.finfo(float64).eps
FEps == [sgn |-> 1, man |-> FOne.man, exp |-> FOne.exp - (MantissaBits - 1)]

\* sklearn's _handle_zeros_in_scale: a range below 10 * eps counts as 1.0
HandleZerosInScale(range) ==
    IF FLess(range, FMul(FFromInt(10), FEps)) THEN FOne ELSE range

\* MinMaxScaler().fit on one imputed column: data_min_, data_max_, scale_, min_
ScalerFit(cells) ==
    LET lo    == FMinOf(cells, 2, cells[1].v)
        hi    == FMaxOf(cells, 2, cells[1].v)
        scale == FDiv(FSub(FOne, FZero), HandleZerosInScale(FSub(hi, lo)))
    IN  [data_min |-> lo, data_max |-> hi, scale |-> scale,
         min |-> FSub(FZero, FMul(lo, scale))]

\* MinMaxScaler().transform of one value: X *= scale_; X += min_
ScalerTransform(fit, x) == FAdd(FMul(x, fit.scale), fit.min)

(***************************************************************************)
(* The categorical pipeline (lines 52-55): SimpleImputer(strategy=         *)
(* 'constant', fill_value='missing') then OneHotEncoder(handle_unknown=    *)
(* 'ignore', sparse_output=False).                                         *)
(***************************************************************************)
FillValue == Str("missing")

\* OneHotEncoder.categories_ of one imputed column
OneHotFit(cells) == UniqueSorted(cells)

\* OneHotEncoder that puts a category it has not seen in the first slot
OneHotTransformFirstSlot(categories, cell) ==
    [k \in 1..Len(categories) |->
        IF categories[k] = cell \/ (k = 1 /\ cell \notin Range(categories))
        THEN FOne ELSE FZero]

\* one row's indicators for a column: 1.0 at the cell's category, 0.0
\* elsewhere; all 0.0 for a category not in categories_
OneHotTransform(categories, cell) ==
    [k \in 1..Len(categories) |-> IF categories[k] = cell THEN FOne ELSE FZero]

(***************************************************************************)
(* ColumnTransformer (lines 58-67): 'num' on numerical_cols, 'cat' on      *)
(* categorical_cols, remainder='passthrough' on every other column.        *)
(***************************************************************************)
\* preprocessor.fit(X)
ColumnTransformerFit(X, num_cols, cat_cols) ==
    LET nums    == Range(num_cols)
        cats    == Range(cat_cols)
        asf     == [c \in nums |-> [i \in 1..NRows(X) |-> AsFloat(X.data[i][c])]]
        stats   == [c \in nums |-> ImputerMean(asf[c])]
        \* the imputer drops a column with no observed value
        kept    == SelectSeqBy(num_cols, {c \in nums : stats[c].t = "flt"})
        imputed == [c \in Range(kept) |->
                      [i \in 1..NRows(X) |-> ImputeCell(asf[c][i], stats[c])]]
        filled  == [c \in cats |->
                      [i \in 1..NRows(X) |-> ImputeCell(X.data[i][c], FillValue)]]
    IN  [num_cols   |-> num_cols,
         statistics |-> stats,
         kept       |-> kept,
         scaler     |-> [c \in Range(kept) |-> ScalerFit(imputed[c])],
         cat_cols   |-> cat_cols,
         categories |-> [c \in cats |-> OneHotFit(filled[c])],
         remainder  |-> SelectSeqBy(X.columns, Range(X.columns) \ (nums \cup cats))]

\* preprocessor.transform of one row: the 'num' block, the 'cat' block, the
\* passed-through columns, stacked in that order
TransformRow(pre, row) ==
    LET num == [k \in 1..Len(pre.kept) |->
                  LET c == pre.kept[k]
                  IN  ScalerTransform(pre.scaler[c],
                          ImputeCell(AsFloat(row[c]), pre.statistics[c]).v)]
        cat == Flatten([k \in 1..Len(pre.cat_cols) |->
                  LET c == pre.cat_cols[k]
                  IN  OneHotTransform(pre.categories[c],
                                      ImputeCell(row[c], FillValue))])
        rem == [k \in 1..Len(pre.remainder) |-> AsFloat(row[pre.remainder[k]]).v]
    IN  num \o cat \o rem

\* onehot.get_feature_names_out(categorical_cols)
OneHotFeatureNames(pre) ==
    Flatten([k \in 1..Len(pre.cat_cols) |->
        LET c == pre.cat_cols[k]
        IN  [j \in 1..Len(pre.categories[c]) |->
                c \o "_" \o pre.categories[c][j].v]])

(***************************************************************************)
(* The input files of the model.  MaxRows bounds the number of records.    *)
(***************************************************************************)
MaxRows == 3

Header ==
    <<"customerID", "SeniorCitizen", "tenure", "MultipleLines",
      "InternetService", "OnlineSecurity", "OnlineBackup", "DeviceProtection",
      "TechSupport", "StreamingTV", "StreamingMovies", "TotalCharges", "Churn">>

BaseRow ==
    [customerID |-> "c1", SeniorCitizen |-> "0", tenure |-> "1",
     MultipleLines |-> "No", InternetService |-> "DSL", OnlineSecurity |-> "No",
     OnlineBackup |-> "Yes", DeviceProtection |-> "No", TechSupport |-> "No",
     StreamingTV |-> "No", StreamingMovies |-> "No", TotalCharges |-> "3",
     Churn |-> "No"]

\* records that differ in the target label, a blank one included
TargetRows == {[BaseRow EXCEPT !.Churn = l] : l \in {"No", "Yes", "Maybe", ""}}

\* records that hold the two cleaned strings, in and out of their columns
CleanRows ==
    {BaseRow,
     [BaseRow EXCEPT !.OnlineSecurity = "No internet service",
                     !.StreamingMovies = "No internet service",
                     !.InternetService = "No"],
     [BaseRow EXCEPT !.MultipleLines = "No phone service"],
     [BaseRow EXCEPT !.OnlineSecurity = "No phone service",
                     !.MultipleLines = "No internet service"],
     [BaseRow EXCEPT !.InternetService = "No internet service",
                     !.TechSupport = "Yes", !.Churn = "Yes"]}

\* records that differ in the numeric columns; " " and "" do not parse
NumericRows ==
    {[BaseRow EXCEPT !.tenure = p[1], !.TotalCharges = p[2]] :
        p \in {<<"1", "1">>, <<"6", "6">>, <<"3", " ">>, <<"6", "">>,
               <<"1", "6">>}}

\* records whose SeniorCitizen reads as a bool, with and without numbers,
\* and one whose only number-like column is a blank TotalCharges
MixedRows ==
    {[BaseRow EXCEPT !.SeniorCitizen = p[1], !.tenure = p[2],
                     !.TotalCharges = p[3]] :
        p \in {<<"True", "1", " ">>, <<"False", "1", " ">>,
               <<"True", "1", "6">>, <<"1", "1", "3">>, <<"No", "No", " ">>}}

\* records that differ in a categorical column, a blank one included
CategoryRows ==
    {[BaseRow EXCEPT !.InternetService = p[1], !.Churn = p[2]] :
        p \in {<<"DSL", "No">>, <<"Fiber optic", "Yes">>, <<"", "No">>,
               <<"DSL", "Yes">>}}

Tables(rows) == UNION {[1..n -> rows] : n \in 1..MaxRows}

\* a one-record file whose header lacks column c
WithoutColumn(c) ==
    [exists |-> TRUE,
     header |-> SelectSeqBy(Header, Range(Header) \ {c}),
     rows   |-> <<[k \in Range(Header) \ {c} |-> BaseRow[k]]>>]

AbsentFile == [exists |-> FALSE, header |-> <<>>, rows |-> <<>>]

Files ==
    {[exists |-> TRUE, header |-> Header, rows |-> r] :
        r \in Tables(TargetRows) \cup Tables(CleanRows) \cup Tables(NumericRows)
              \cup Tables(MixedRows) \cup Tables(CategoryRows)}
    \cup {WithoutColumn(c) : c \in Range(Header)}
    \cup {AbsentFile}

(***************************************************************************)
(* State: the file at raw_data_path, the locals of automate_preprocessing, *)
(* the files it has written, and a later use of the fitted preprocessor.   *)
(***************************************************************************)
VARIABLES
    pc,                 \* the statement to run next, "done" or "failed"
    file,               \* the CSV at raw_data_path
    df, X, y,           \* lines 14-29
    le, y_encoded,      \* lines 32-33: le.classes_ and the codes
    categorical_cols, numerical_cols,       \* lines 38-39
    preprocessor,       \* the fitted ColumnTransformer
    X_processed_array,  \* line 67
    all_feature_names,  \* line 71
    X_processed,        \* line 73
    disk,               \* the artifacts written, in the order written
    error,              \* the exception that ended the run
    later               \* a later record and its transform

vars ==
    <<pc, file, df, X, y, le, y_encoded, categorical_cols, numerical_cols,
      preprocessor, X_processed_array, all_feature_names, X_processed, disk,
      error, later>>

\* the paths of lines 88-91
PREPROCESSED_X_PATH == "preprocessing/telco_customer_churn_preprocessed_X.csv"

PREPROCESSED_Y_PATH == "preprocessing/telco_customer_churn_preprocessed_y.csv"

PREPROCESSOR_PATH == "preprocessing/preprocessor_pipeline.joblib"

LABEL_ENCODER_PATH == "preprocessing/label_encoder.joblib"

EmptyFrame == [columns |-> <<>>, dtype |-> <<>>, data |-> <<>>]

NoPreprocessor ==
    [num_cols |-> <<>>, statistics |-> <<>>, kept |-> <<>>, scaler |-> <<>>,
     cat_cols |-> <<>>, categories |-> <<>>, remainder |-> <<>>]

NoLater == [row |-> <<>>, out |-> <<>>]

Init ==
    /\ pc = "read_csv"
    /\ file \in Files
    /\ df = EmptyFrame
    /\ X = EmptyFrame
    /\ y = <<>>
    /\ le = <<>>
    /\ y_encoded = <<>>
    /\ categorical_cols = <<>>
    /\ numerical_cols = <<>>
    /\ preprocessor = NoPreprocessor
    /\ X_processed_array = <<>>
    /\ all_feature_names = <<>>
    /\ X_processed = [columns |-> <<>>, data |-> <<>>]
    /\ disk = <<>>
    /\ error = "none"
    /\ later = NoLater

\* raise: the run ends with exception e, the locals left as they are
Raise(e) == pc' = "failed" /\ error' = e

(***************************************************************************)
(* automate_preprocessing, one action per statement.                       *)
(***************************************************************************)
\* line 14: df = pd.read_csv(raw_data_path)
ReadCsvStep ==
    /\ pc = "read_csv"
    /\ IF file.exists
       THEN /\ df' = ReadCsv(file)
            /\ pc' = "replace_service"
            /\ UNCHANGED error
       ELSE /\ Raise("FileNotFoundError")
            /\ UNCHANGED df
    /\ UNCHANGED <<file, X, y, le, y_encoded, categorical_cols, numerical_cols,
                   preprocessor, X_processed_array, all_feature_names,
                   X_processed, disk, later>>

\* lines 17-18: the six service columns, 'No internet service' -> 'No'
ReplaceServiceStep ==
    /\ pc = "replace_service"
    /\ LET r == ReplaceServiceFrom(df, 1)
       IN  /\ df' = r.frame
           /\ IF r.ok
              THEN pc' = "replace_lines" /\ UNCHANGED error
              ELSE Raise("KeyError")
    /\ UNCHANGED <<file, X, y, le, y_encoded, categorical_cols, numerical_cols,
                   preprocessor, X_processed_array, all_feature_names,
                   X_processed, disk, later>>

\* line 19: MultipleLines, 'No phone service' -> 'No'
ReplaceLinesStep ==
    /\ pc = "replace_lines"
    /\ IF HasColumn(df, "MultipleLines")
       THEN /\ df' = ReplaceInColumn(df, "MultipleLines", "No phone service", "No")
            /\ pc' = "to_numeric"
            /\ UNCHANGED error
       ELSE /\ Raise("KeyError")
            /\ UNCHANGED df
    /\ UNCHANGED <<file, X, y, le, y_encoded, categorical_cols, numerical_cols,
                   preprocessor, X_processed_array, all_feature_names,
                   X_processed, disk, later>>

\* line 22: df['TotalCharges'] = pd.to_numeric(df['TotalCharges'], errors='coerce')
ToNumericStep ==
    /\ pc = "to_numeric"
    /\ IF HasColumn(df, "TotalCharges")
       THEN /\ df' = ToNumeric(df, "TotalCharges")
            /\ pc' = "drop_id"
            /\ UNCHANGED error
       ELSE /\ Raise("KeyError")
            /\ UNCHANGED df
    /\ UNCHANGED <<file, X, y, le, y_encoded, categorical_cols, numerical_cols,
                   preprocessor, X_processed_array, all_feature_names,
                   X_processed, disk, later>>

\* line 25: df = df.drop('customerID', axis=1)
DropIdStep ==
    /\ pc = "drop_id"
    /\ IF HasColumn(df, "customerID")
       THEN /\ df' = DropColumn(df, "customerID")
            /\ pc' = "split"
            /\ UNCHANGED error
       ELSE /\ Raise("KeyError")
            /\ UNCHANGED df
    /\ UNCHANGED <<file, X, y, le, y_encoded, categorical_cols, numerical_cols,
                   preprocessor, X_processed_array, all_feature_names,
                   X_processed, disk, later>>

\* lines 28-29: X = df.drop('Churn', axis=1); y = df['Churn']
SplitStep ==
    /\ pc = "split"
    /\ IF HasColumn(df, "Churn")
       THEN /\ X' = DropColumn(df, "Churn")
            /\ y' = Column(df, "Churn")
            /\ pc' = "label_fit"
            /\ UNCHANGED error
       ELSE /\ Raise("KeyError")
            /\ UNCHANGED <<X, y>>
    /\ UNCHANGED <<file, df, le, y_encoded, categorical_cols, numerical_cols,
                   preprocessor, X_processed_array, all_feature_names,
                   X_processed, disk, later>>

\* lines 32-34: le = LabelEncoder(); y_encoded = le.fit_transform(y)
LabelFitStep ==
    /\ pc = "label_fit"
    /\ le' = LabelFit(y)
    /\ y_encoded' = LabelTransform(le', y)
    /\ pc' = "label_dump"
    /\ UNCHANGED <<file, df, X, y, categorical_cols, numerical_cols,
                   preprocessor, X_processed_array, all_feature_names,
                   X_processed, disk, error, later>>

\* a write that replaces what the run has written so far
WriteOver(path, content, next) ==
    \E ok \in BOOLEAN :
        IF ok
        THEN /\ disk' = <<[path |-> path, content |-> content]>>
             /\ pc' = next
             /\ UNCHANGED error
        ELSE /\ Raise("OSError")
             /\ UNCHANGED disk

\* joblib.dump / to_csv: the file is written, or the write raises OSError
Write(path, content, next) ==
    \E ok \in BOOLEAN :
        IF ok
        THEN /\ disk' = Append(disk, [path |-> path, content |-> content])
             /\ pc' = next
             /\ UNCHANGED error
        ELSE /\ Raise("OSError")
             /\ UNCHANGED disk

\* line 35: dump(le, label_encoder_path)
LabelDumpStep ==
    /\ pc = "label_dump"
    /\ Write(LABEL_ENCODER_PATH, le, "select_dtypes")
    /\ UNCHANGED <<file, df, X, y, le, y_encoded, categorical_cols,
                   numerical_cols, preprocessor, X_processed_array,
                   all_feature_names, X_processed, later>>

\* lines 38-39: the object columns and the int64/float64 columns of X
SelectDtypesStep ==
    /\ pc = "select_dtypes"
    /\ categorical_cols' = SelectDtypes(X, {"object"})
    /\ numerical_cols' = SelectDtypes(X, {"int64", "float64"})
    /\ pc' = "fit_transform"
    /\ UNCHANGED <<file, df, X, y, le, y_encoded, preprocessor,
                   X_processed_array, all_feature_names, X_processed, disk,
                   error, later>>

\* lines 47-67: X_processed_array = preprocessor.fit_transform(X).  A 'num'
\* block left with no column makes MinMaxScaler raise.
FitTransformStep ==
    /\ pc = "fit_transform"
    /\ LET fitted == ColumnTransformerFit(X, numerical_cols, categorical_cols)
       IN  IF numerical_cols # <<>> /\ fitted.kept = <<>>
           THEN /\ Raise("ValueError")
                /\ UNCHANGED <<preprocessor, X_processed_array>>
           ELSE /\ preprocessor' = fitted
                /\ X_processed_array' =
                       [i \in 1..NRows(X) |-> TransformRow(fitted, X.data[i])]
                /\ pc' = "feature_names"
                /\ UNCHANGED error
    /\ UNCHANGED <<file, df, X, y, le, y_encoded, categorical_cols,
                   numerical_cols, all_feature_names, X_processed, disk, later>>

\* lines 70-71: the names of the one-hot columns after the numeric names.
\* named_transformers_['cat'] is not fitted when there was no object column.
FeatureNamesStep ==
    /\ pc = "feature_names"
    /\ IF categorical_cols = <<>>
       THEN /\ Raise("NotFittedError")
            /\ UNCHANGED all_feature_names
       ELSE /\ all_feature_names' = numerical_cols \o OneHotFeatureNames(preprocessor)
            /\ pc' = "frame"
            /\ UNCHANGED error
    /\ UNCHANGED <<file, df, X, y, le, y_encoded, categorical_cols,
                   numerical_cols, preprocessor, X_processed_array,
                   X_processed, disk, later>>

\* line 73: X_processed = pd.DataFrame(X_processed_array, columns=all_feature_names)
\* raises when the number of names is not the number of columns of the array
FrameStep ==
    /\ pc = "frame"
    /\ IF Len(all_feature_names) = Len(X_processed_array[1])
       THEN /\ X_processed' = [columns |-> all_feature_names,
                               data |-> X_processed_array]
            /\ pc' = "preprocessor_dump"
            /\ UNCHANGED error
       ELSE /\ Raise("ValueError")
            /\ UNCHANGED X_processed
    /\ UNCHANGED <<file, df, X, y, le, y_encoded, categorical_cols,
                   numerical_cols, preprocessor, X_processed_array,
                   all_feature_names, disk, later>>

\* line 75: dump(preprocessor, preprocessor_path)
PreprocessorDumpStep ==
    /\ pc = "preprocessor_dump"
    /\ Write(PREPROCESSOR_PATH, preprocessor, "x_to_csv")
    /\ UNCHANGED <<file, df, X, y, le, y_encoded, categorical_cols,
                   numerical_cols, preprocessor, X_processed_array,
                   all_feature_names, X_processed, later>>

\* line 79: X_processed.to_csv(preprocessed_X_path, index=False)
XToCsvStep ==
    /\ pc = "x_to_csv"
    /\ Write(PREPROCESSED_X_PATH, X_processed, "y_to_csv")
    /\ UNCHANGED <<file, df, X, y, le, y_encoded, categorical_cols,
                   numerical_cols, preprocessor, X_processed_array,
                   all_feature_names, X_processed, later>>

\* line 80: pd.DataFrame(y_encoded, columns=['Churn_Encoded']).to_csv(...)
YToCsvStep ==
    /\ pc = "y_to_csv"
    /\ Write(PREPROCESSED_Y_PATH,
             [columns |-> <<"Churn_Encoded">>,
              data |-> [i \in 1..Len(y_encoded) |-> <<y_encoded[i]>>]],
             "return")
    /\ UNCHANGED <<file, df, X, y, le, y_encoded, categorical_cols,
                   numerical_cols, preprocessor, X_processed_array,
                   all_feature_names, X_processed, later>>

\* line 84: return X_processed, y_encoded
ReturnStep ==
    /\ pc = "return"
    /\ pc' = "done"
    /\ UNCHANGED <<file, df, X, y, le, y_encoded, categorical_cols,
                   numerical_cols, preprocessor, X_processed_array,
                   all_feature_names, X_processed, disk, error, later>>

(***************************************************************************)
(* After the run: the preprocessor written at preprocessor_path transforms *)
(* a later feature row whose columns hold what they held at fit time       *)
(* (numbers, text, bools).                                                 *)
(***************************************************************************)
\* a feature row as lines 14-28 leave BaseRow
BaseFeatures ==
    [SeniorCitizen |-> Num(0), tenure |-> Num(1), MultipleLines |-> Str("No"),
     InternetService |-> Str("DSL"), OnlineSecurity |-> Str("No"),
     OnlineBackup |-> Str("Yes"), DeviceProtection |-> Str("No"),
     TechSupport |-> Str("No"), StreamingTV |-> Str("No"),
     StreamingMovies |-> Str("No"), TotalCharges |-> Num(3)]

\* later feature rows: other categories, a missing one, a missing number, a bool
LaterRows ==
    {[BaseFeatures EXCEPT !.InternetService = v] :
        v \in {Str("DSL"), Str("Fiber optic"), Str("No"), NaN}}
    \cup {[BaseFeatures EXCEPT !.tenure = Num(3), !.TotalCharges = NaN,
                               !.OnlineBackup = Str("No")],
          [BaseFeatures EXCEPT !.SeniorCitizen = Bool(TRUE),
                               !.MultipleLines = Str("Yes")]}

Compatible(pre, row) ==
    /\ \A c \in Range(pre.num_cols) : row[c].t \in {"num", "nan"}
    /\ \A c \in Range(pre.cat_cols) : row[c].t \in {"str", "nan"}
    /\ \A c \in Range(pre.remainder) : row[c].t = "bool"

\* load(path): what the run wrote at path
Saved(path) ==
    disk[CHOOSE k \in 1..Len(disk) : disk[k].path = path].content

TransformLater ==
    /\ pc = "done"
    /\ later = NoLater
    /\ \E row \in LaterRows :
          LET pre == Saved(PREPROCESSOR_PATH)
          IN  /\ Compatible(pre, row)
              /\ later' = [row |-> row, out |-> TransformRow(pre, row)]
    /\ UNCHANGED <<pc, file, df, X, y, le, y_encoded, categorical_cols,
                   numerical_cols, preprocessor, X_processed_array,
                   all_feature_names, X_processed, disk, error>>

Next ==
    \/ ReadCsvStep
    \/ ReplaceServiceStep
    \/ ReplaceLinesStep
    \/ ToNumericStep
    \/ DropIdStep
    \/ SplitStep
    \/ LabelFitStep
    \/ LabelDumpStep
    \/ SelectDtypesStep
    \/ FitTransformStep
    \/ FeatureNamesStep
    \/ FrameStep
    \/ PreprocessorDumpStep
    \/ XToCsvStep
    \/ YToCsvStep
    \/ ReturnStep
    \/ TransformLater

Spec == Init /\ [][Next]_vars

(***************************************************************************)
(* The claims.                                                             *)
(***************************************************************************)
\* the statements after which le and y_encoded hold the fitted encoder
LabelFitted == y # <<>> /\ pc # "label_fit"

Labels == Range(y)

\* C1: when the target column holds a number of distinct values other than
\* two, the run fails with LabelCardinalityError and nothing has been
\* written.
C1_OtherCardinalityFails ==
    (LabelFitted /\ Cardinality(Labels) # 2)
        => /\ pc = "failed"
           /\ error = "LabelCardinalityError"
           /\ disk = <<>>

\* C2: for a target column of exactly two distinct label strings, le maps
\* the smaller string (by code points) to 0 and the larger to 1 and nothing
\* else; y_encoded has one code per row, the code of that row's label;
\* decoding y_encoded gives back y; the mapping written to disk is that
\* mapping; and fitting on the two labels in either order gives it again.
C2_TwoLabelBijection ==
    (LabelFitted /\ Cardinality(Labels) = 2 /\ \A l \in Labels : l.t = "str")
        => \E a, b \in Labels :
              /\ StrLess(a.v, b.v)
              /\ le = <<a, b>>
              /\ Len(y_encoded) = Len(y)
              /\ \A i \in 1..Len(y) : y_encoded[i] = IF y[i] = a THEN 0 ELSE 1
              /\ LabelInverse(le, y_encoded) = y
              /\ disk # <<>> =>
                    /\ disk[1].path = LABEL_ENCODER_PATH
                    /\ disk[1].content = le
              /\ LabelFit(<<a, b>>) = le
              /\ LabelFit(<<b, a>>) = le

\* a finished run whose first label is the larger of two
C2_Witness ==
    /\ pc = "done"
    /\ Cardinality(Labels) = 2
    /\ y[1] = Str("Yes")
    /\ Str("No") \in Labels
    /\ y_encoded[1] = 1

\* the statements after which X_processed_array holds the transformed rows
Transformed == X_processed_array # <<>>

\* the number of columns of a transformed row before those of the k-th
\* categorical column
RECURSIVE CatOffset(_, _)
CatOffset(pre, k) ==
    IF k = 1 THEN Len(pre.kept)
    ELSE CatOffset(pre, k - 1) + Len(pre.categories[pre.cat_cols[k - 1]])

\* the indicators of the k-th categorical column in a transformed row
Indicators(pre, out, k) ==
    SubSeq(out, CatOffset(pre, k) + 1,
           CatOffset(pre, k) + Len(pre.categories[pre.cat_cols[k]]))

Ones(slice) == {j \in 1..Len(slice) : slice[j] = FOne}

Zeros(slice) == {j \in 1..Len(slice) : slice[j] = FZero}

\* the slice is the one-hot code of cell: a single 1.0, at cell's category,
\* when cell is in the vocabulary; all 0.0 when it is not
OneHotOf(categories, slice, cell) ==
    /\ Len(slice) = Len(categories)
    /\ Ones(slice) \cup Zeros(slice) = 1..Len(slice)
    /\ IF cell \in Range(categories)
       THEN /\ Cardinality(Ones(slice)) = 1
            /\ \A j \in Ones(slice) : categories[j] = cell
       ELSE Ones(slice) = {}

\* C3: in every transformed row of the fitted table, each categorical
\* column has exactly one indicator at 1.0, that of the row's category
\* (a missing one counted as "missing"), which is always in the vocabulary;
\* in a later row, a column whose category is in the vocabulary has exactly
\* one, one whose category is not has none, and the row comes out with the
\* width of the fitted table.
C3_OneHotIndicators ==
    /\ Transformed =>
          \A k \in 1..Len(preprocessor.cat_cols) : \A i \in 1..NRows(X) :
              /\ ImputeCell(X.data[i][preprocessor.cat_cols[k]], FillValue)
                     \in Range(preprocessor.categories[preprocessor.cat_cols[k]])
              /\ OneHotOf(preprocessor.categories[preprocessor.cat_cols[k]],
                          Indicators(preprocessor, X_processed_array[i], k),
                          ImputeCell(X.data[i][preprocessor.cat_cols[k]], FillValue))
    /\ later # NoLater =>
          /\ Len(later.out) = Len(X_processed_array[1])
          /\ \A k \in 1..Len(preprocessor.cat_cols) :
                OneHotOf(preprocessor.categories[preprocessor.cat_cols[k]],
                         Indicators(preprocessor, later.out, k),
                         ImputeCell(later.row[preprocessor.cat_cols[k]], FillValue))

\* a table fitted with a missing category, and a later row whose category
\* the fit never saw
C3_Witness ==
    /\ later # NoLater
    /\ "InternetService" \in Range(preprocessor.cat_cols)
    /\ FillValue \in Range(preprocessor.categories["InternetService"])
    /\ later.row["InternetService"].t = "str"
    /\ later.row["InternetService"] \notin Range(preprocessor.categories["InternetService"])
    /\ Cardinality({i \in 1..Len(later.out) : later.out[i] = FOne}) =
           Len(preprocessor.cat_cols) - 1

\* the values a numeric column holds in X, the missing cells left out
Observed(c) == {X.data[i][c].v : i \in {j \in 1..NRows(X) : X.data[j][c].t = "num"}}

IntMin(S) == CHOOSE m \in S : \A n \in S : m <= n

IntMax(S) == CHOOSE m \in S : \A n \in S : m >= n

\* C4: after fit_transform every value of a numeric column with at least
\* two distinct observed values lies in [0, 1], the observed minimum at 0
\* and the observed maximum at 1; a column whose observed values are all
\* equal is 0 in every row.
C4_ScaledIntoUnitInterval ==
    Transformed =>
        \A k \in 1..Len(preprocessor.kept) : \A i \in 1..NRows(X) :
            LET c   == preprocessor.kept[k]
                out == X_processed_array[i][k]
            IN  IF Cardinality(Observed(c)) >= 2
                THEN /\ FLeq(FZero, out) /\ FLeq(out, FOne)
                     /\ X.data[i][c] = Num(IntMin(Observed(c))) => out = FZero
                     /\ X.data[i][c] = Num(IntMax(Observed(c))) => out = FOne
                ELSE out = FZero

\* what Rules 1 and 2 make of the cell read from column c
Cleaned(c, cell, rule2) ==
    IF c \in Range(ServiceCols) /\ cell = Str("No internet service") THEN Str("No")
    ELSE IF rule2 /\ c = "MultipleLines" /\ cell = Str("No phone service")
    THEN Str("No")
    ELSE cell

\* df is the frame read from the file with the cells of Rule 1 (and of
\* Rule 2) replaced and every other cell, every column and every dtype as read
OnlyTargetedCells(rule2) ==
    LET raw == ReadCsv(file)
    IN  /\ df.columns = raw.columns
        /\ df.dtype = raw.dtype
        /\ NRows(df) = NRows(raw)
        /\ \A i \in 1..NRows(raw) : \A c \in Range(raw.columns) :
               df.data[i][c] = Cleaned(c, raw.data[i][c], rule2)

\* C5: once Rule 1 (and then Rule 2) has run, running either again changes
\* nothing, and the frame differs from the one read only in the cells of the
\* rule's own columns that held exactly the targeted string.
C5_CleaningIdempotentLocal ==
    /\ pc = "replace_lines" =>
          /\ ReplaceServiceFrom(df, 1) = [frame |-> df, ok |-> TRUE]
          /\ OnlyTargetedCells(FALSE)
    /\ pc = "to_numeric" =>
          /\ ReplaceServiceFrom(df, 1) = [frame |-> df, ok |-> TRUE]
          /\ ReplaceInColumn(df, "MultipleLines", "No phone service", "No") = df
          /\ OnlyTargetedCells(TRUE)

\* both rules have rewritten a cell, and each targeted string is still there
\* in a column that is not the rule's
C5_Witness ==
    /\ pc = "to_numeric"
    /\ \E i, j \in 1..NRows(df) :
          /\ file.rows[i].OnlineSecurity = "No internet service"
          /\ df.data[i].OnlineSecurity = Str("No")
          /\ file.rows[j].MultipleLines = "No phone service"
          /\ df.data[j].MultipleLines = Str("No")
    /\ \E i \in 1..NRows(df) :
          /\ df.data[i].MultipleLines = Str("No internet service")
          /\ df.data[i].OnlineSecurity = Str("No phone service")

\* the cell is what lines 14-22 make of the token read
Matches(cell, tok) ==
    IF cell.t = "nan" THEN tok \in NaValues \cup {" "}
    ELSE IF cell.t = "num" THEN tok \in IntTokens /\ cell.v = ParseInt(tok)
    ELSE IF cell.t = "bool" THEN cell.v = (tok \in TrueValues)
    ELSE \/ cell.v = tok
         \/ tok \in {"No internet service", "No phone service"} /\ cell.v = "No"

\* the label the file holds in record i
LabelRead(i) ==
    IF file.rows[i].Churn \in NaValues THEN NaN ELSE Str(file.rows[i].Churn)

\* C6: the frame, the features, the target, the codes and the transformed
\* array each hold one row per record of the file, in the file's order, at
\* every stage; the table a run returns holds in row i the transform of
\* record i, and the run has written a feature table and an encoded target
\* with those rows.
C6_RowsPreserved ==
    /\ df # EmptyFrame => NRows(df) = Len(file.rows)
    /\ X # EmptyFrame =>
          /\ NRows(X) = Len(file.rows)
          /\ \A i \in 1..NRows(X) : \A c \in Range(X.columns) :
                 Matches(X.data[i][c], file.rows[i][c])
    /\ y # <<>> =>
          /\ Len(y) = Len(file.rows)
          /\ \A i \in 1..Len(y) : y[i] = LabelRead(i)
    /\ y_encoded # <<>> =>
          /\ Len(y_encoded) = Len(file.rows)
          /\ \A i \in 1..Len(y_encoded) : le[y_encoded[i] + 1] = LabelRead(i)
    /\ Transformed => Len(X_processed_array) = Len(file.rows)
    /\ pc = "return" =>
          /\ X_processed.data = X_processed_array
          /\ \A i \in 1..NRows(X) :
                 X_processed.data[i] = TransformRow(preprocessor, X.data[i])
    /\ pc = "done" =>
          /\ X_processed.data = X_processed_array
          /\ Saved(PREPROCESSED_X_PATH).data = X_processed_array
          /\ Saved(PREPROCESSED_Y_PATH).data =
                 [i \in 1..Len(file.rows) |-> <<y_encoded[i]>>]

\* a returned run over three records, one with a TotalCharges that did not
\* parse and was coerced to missing
C6_Witness ==
    /\ pc = "done"
    /\ Len(file.rows) = 3
    /\ NRows(X_processed) = 3
    /\ Len(y_encoded) = 3
    /\ \E i \in 1..3 :
          file.rows[i].TotalCharges = " " /\ X.data[i].TotalCharges = NaN

\* the statements after which X_processed is the labelled table
Framed == X_processed.columns # <<>>

\* the columns fit_transform lays out in its array: the numeric columns the
\* imputer kept, the one-hot columns, the passed-through columns
ArrayLayout(pre) == pre.kept \o OneHotFeatureNames(pre) \o pre.remainder

\* C7: the labels of the output table are the numeric columns of X in
\* order, then the one-hot names by categorical column and category; they
\* are as many as the columns of the array, each names the column the array
\* holds in its position, and customerID and Churn are not among them.
C7_LabelsNameTheData ==
    Framed =>
        /\ X_processed.columns =
               SelectDtypes(X, {"int64", "float64"}) \o OneHotFeatureNames(preprocessor)
        /\ Len(X_processed.columns) = Len(X_processed.data[1])
        /\ X_processed.columns = ArrayLayout(preprocessor)
        /\ "customerID" \notin Range(X_processed.columns)
        /\ "Churn" \notin Range(X_processed.columns)

\* the columns of X that are neither numeric nor categorical
Unclassified ==
    {c \in Range(X.columns) : X.dtype[c] \notin {"int64", "float64", "object"}}

\* lines 38-39 have run: X has columns, so one of the two lists has names
Classified == numerical_cols \o categorical_cols # <<>>

\* C8: after classification the int64/float64 columns are the numeric ones
\* and the object columns the categorical ones; when a column is in neither
\* class the run is not ended by the pipeline (only a failed write can end
\* it), and the table it produces has a column holding that column's values
\* unchanged.
C8_UnclassifiedPassesThrough ==
    (Classified /\ Unclassified # {}) =>
        /\ numerical_cols = SelectDtypes(X, {"int64", "float64"})
        /\ categorical_cols = SelectDtypes(X, {"object"})
        /\ pc = "failed" => error = "OSError"
        /\ Framed =>
              \A c \in Unclassified :
                  \E k \in 1..Len(X_processed.columns) :
                      \A i \in 1..NRows(X) :
                          X_processed.data[i][k] = AsFloat(X.data[i][c]).v

\* the records whose TotalCharges token is not a number
Unparsable == {i \in 1..Len(file.rows) : file.rows[i].TotalCharges \notin IntTokens}

\* the place of column c in a sequence of names
Place(names, c) == CHOOSE k \in 1..Len(names) : names[k] = c

\* (mean - min) / (max - min) of the TotalCharges values that parsed, in
\* float64; 0 when they are all equal
ScaledMean ==
    LET vals == Observed("TotalCharges")
        mean == ImputerMean([j \in 1..NRows(X) |-> AsFloat(X.data[j].TotalCharges)]).v
        lo   == FFromInt(IntMin(vals))
        hi   == FFromInt(IntMax(vals))
    IN  IF lo = hi THEN FZero ELSE FDiv(FSub(mean, lo), FSub(hi, lo))

\* C9: when some TotalCharges does not parse, the cell is missing from the
\* coercion on, TotalCharges is classified numeric, no statement of the
\* pipeline ends the run (only a failed write can), and in the output the
\* cell holds (mean - min) / (max - min) of the TotalCharges values that did
\* parse.
C9_UnparsableTotalCharges ==
    (file.exists /\ "TotalCharges" \in Range(file.header) /\ Unparsable # {}) =>
        /\ pc = "failed" => error = "OSError"
        /\ X # EmptyFrame => \A i \in Unparsable : X.data[i].TotalCharges = NaN
        /\ Classified => "TotalCharges" \in Range(numerical_cols)
        /\ (Framed /\ Observed("TotalCharges") # {}) =>
              \A i \in Unparsable :
                  X_processed.data[i][Place(X_processed.columns, "TotalCharges")]
                      = ScaledMean

\* the four artifacts in the order of lines 35, 75, 79, 80
ArtifactOrder ==
    <<LABEL_ENCODER_PATH, PREPROCESSOR_PATH, PREPROCESSED_X_PATH,
      PREPROCESSED_Y_PATH>>

\* what each artifact must hold: the fitted object of the run
Holds(k, content) ==
    IF k = 1 THEN le # <<>> /\ content = le
    ELSE IF k = 2 THEN preprocessor # NoPreprocessor /\ content = preprocessor
    ELSE IF k = 3 THEN Framed /\ content = X_processed
    ELSE content = [columns |-> <<"Churn_Encoded">>,
                    data |-> [i \in 1..Len(y_encoded) |-> <<y_encoded[i]>>]]

\* the artifacts on disk are the first ones of the order, each once, each
\* holding the fitted object; a returned run has all four
ArtifactsArePrefix ==
    /\ Len(disk) <= Len(ArtifactOrder)
    /\ \A k \in 1..Len(disk) :
          disk[k].path = ArtifactOrder[k] /\ Holds(k, disk[k].content)
    /\ pc \in {"return", "done"} => Len(disk) = Len(ArtifactOrder)

\* a step leaves the disk alone or appends one artifact to it
DiskOnlyGrows ==
    \/ disk' = disk
    \/ Len(disk') = Len(disk) + 1 /\ SubSeq(disk', 1, Len(disk)) = disk

\* C10: in every state, after a failure too, the artifacts on disk are a
\* prefix of label mapping, feature transformer, feature table, encoded
\* target, each written once and holding the fitted object; no step removes
\* or rewrites one; a run that returns has written all four.
C10_ArtifactsInOrder == []ArtifactsArePrefix /\ [][DiskOnlyGrows]_vars

\* the run failed with the label mapping on disk and the feature transformer
\* never fitted
C10_Witness ==
    /\ pc = "failed"
    /\ Len(disk) = 1
    /\ disk[1].path = LABEL_ENCODER_PATH
    /\ preprocessor = NoPreprocessor

====
